---- MODULE Spec2Model ----
(***************************************************************************)
(* Model of bloom_filter_passwords.py: the BloomFilter class (bit array,   *)
(* md5-derived positions, add, check) and check_password_uniqueness, the   *)
(* batch classifier that drives it.                                        *)
(*                                                                         *)
(* A Python value is a record [type, s]: its type name and str(value).     *)
(* md5 is modelled by its real digests (hexdigest, one entry per hex       *)
(* digit) for every string the model hashes.                               *)
(***************************************************************************)
EXTENDS Integers, Sequences, FiniteSets, TLC

\* ------------------------------------------------------------------ bounds
MaxSize == 3        \* filters of size 1..MaxSize
MaxHashes == 2      \* num_hashes 1..MaxHashes
MaxBatch == 3       \* batches of 0..MaxBatch passwords

\* ------------------------------------------------------------------ values
PyStr(s) == [type |-> "str", s |-> s]
PyNone == [type |-> "NoneType", s |-> "None"]
PyList == [type |-> "list", s |-> "[]"]

\* The values the callers pass: two passwords, the empty string, None and a
\* list (a non-string whose type is unhashable).
Items == {PyStr("a"), PyStr("b"), PyStr(""), PyNone, PyList}

\* str(i) for the hash indices
StrOfInt(i) == CASE i = 0 -> "0" [] i = 1 -> "1" [] i = 2 -> "2" [] i = 3 -> "3"

\* hashlib.md5(s.encode('utf-8')).hexdigest(), digit by digit
Md5HexDigest ==
    "0" :> <<12,15,12,13,2,0,8,4,9,5,13,5,6,5,14,15,6,6,14,7,13,15,15,9,15,9,8,7,6,4,13,10>> @@
    "1" :> <<12,4,12,10,4,2,3,8,10,0,11,9,2,3,8,2,0,13,12,12,5,0,9,10,6,15,7,5,8,4,9,11>> @@
    "2" :> <<12,8,1,14,7,2,8,13,9,13,4,12,2,15,6,3,6,15,0,6,7,15,8,9,12,12,1,4,8,6,2,12>> @@
    "3" :> <<14,12,12,11,12,8,7,14,4,11,5,12,14,2,15,14,2,8,3,0,8,15,13,9,15,2,10,7,11,10,15,3>> @@
    "None0" :> <<9,13,1,13,6,11,5,7,2,4,11,4,12,4,12,12,12,7,0,14,5,12,12,5,13,11,14,15,14,9,4,13>> @@
    "None1" :> <<14,8,10,2,1,10,9,3,15,2,4,4,11,2,9,14,4,13,10,5,0,12,12,11,14,4,0,9,12,2,8,15>> @@
    "None2" :> <<0,9,9,2,6,8,12,3,1,2,1,13,4,9,9,3,7,10,6,7,10,0,5,2,12,5,1,15,8,6,5,13>> @@
    "None3" :> <<13,8,14,3,0,6,8,10,1,11,4,10,13,9,1,11,2,0,6,6,13,3,14,1,7,8,0,5,9,3,14,14>> @@
    "a0" :> <<5,6,4,0,4,8,6,13,10,10,6,8,8,0,13,6,6,7,11,7,6,12,9,5,8,8,2,0,3,6,1,10>> @@
    "a1" :> <<8,10,8,11,11,7,12,13,3,4,3,10,10,2,10,13,9,9,11,7,13,7,6,2,0,3,0,8,5,7,10,2>> @@
    "a2" :> <<6,9,3,10,9,15,13,13,4,12,2,15,13,0,7,0,0,9,6,8,15,11,10,0,13,0,7,15,15,3,12,0>> @@
    "a3" :> <<9,13,6,0,7,10,6,6,3,15,3,14,9,11,0,10,9,0,12,3,12,8,13,4,4,2,6,6,4,0,13,12>> @@
    "b0" :> <<15,8,5,1,15,5,5,11,10,1,10,8,4,14,3,7,12,4,14,0,3,4,3,9,9,5,4,13,12,11,0,9>> @@
    "b1" :> <<14,13,11,10,11,4,5,5,7,2,12,7,2,10,5,13,9,4,4,0,11,4,0,11,12,12,0,5,0,0,12,0>> @@
    "b2" :> <<15,11,15,11,10,2,14,4,5,12,2,0,4,5,13,12,5,12,10,11,2,2,10,5,10,15,14,8,3,13,9,13>> @@
    "b3" :> <<7,10,6,15,1,5,0,11,8,3,0,9,1,12,14,2,0,12,8,9,3,6,8,6,4,1,15,9,10,1,3,7>> @@
    "[]0" :> <<14,14,1,1,12,9,12,4,7,14,9,15,10,3,4,3,15,1,3,11,14,13,14,2,1,11,6,14,7,5,5,3>> @@
    "[]1" :> <<11,7,3,12,0,4,9,1,11,1,14,2,3,2,5,12,4,0,0,14,9,3,7,5,6,0,6,10,14,2,12,3>> @@
    "[]2" :> <<3,12,15,8,9,4,6,12,8,1,5,1,8,6,8,5,0,8,0,3,13,13,3,13,6,12,0,12,12,11,3,12>> @@
    "[]3" :> <<4,14,1,1,7,14,0,13,13,10,7,6,10,2,11,13,13,8,13,2,11,3,12,1,15,6,3,12,11,9,2,12>>

\* int(hexdigest, 16) % m. The 128-bit integer is never built: the remainder
\* is carried through the digits, (acc * 16 + d) % m, which is the same
\* number.
RECURSIVE IntOfHexMod(_, _, _, _)
IntOfHexMod(digits, n, acc, m) ==
    IF n > Len(digits) THEN acc
    ELSE IntOfHexMod(digits, n + 1, (acc * 16 + digits[n]) % m, m)

\* int(md5(s).hexdigest(), 16) % m for every string hashed and every filter
\* size, tabulated once
HashValue ==
    [m \in 1..MaxSize |->
        [s \in DOMAIN Md5HexDigest |-> IntOfHexMod(Md5HexDigest[s], 1, 0, m)]]

\* ------------------------------------------------------------------- state
VARIABLES
    size,        \* BloomFilter.size
    num_hashes,  \* BloomFilter.num_hashes
    bit_array,   \* BloomFilter.bit_array, indexed 0..size-1
    pc,          \* "idle", or "loop" inside check_password_uniqueness
    passwords,   \* the batch the running check_password_uniqueness was given
    idx,         \* 1-based position of its for loop in passwords
    results,     \* its results dict, in insertion order: <<key, status>> pairs
    ret,         \* the last call and how it ended: [op, item, value, again];
                 \* again: add had already returned for this item before
    added,       \* history: the items for which add has returned
    trace,       \* history: the status assigned at each loop iteration
    bits0        \* history: bit_array when the running batch was started

vars == <<size, num_hashes, bit_array, pc, passwords, idx, results, ret,
          added, trace, bits0>>

\* --------------------------------------------------------------- BloomFilter

\* __init__: [0] * size
ZeroBits(m) == [i \in 0..(m - 1) |-> 0]

\* _hashes(item): the num_hashes positions, in order
_hashes(item) ==
    [i \in 1..num_hashes |->
        HashValue[size][item.s \o StrOfInt(i - 1)]]

\* IsNoneOrEmpty with the empty-string test forgotten
IsNoneOnly(item) == item.type = "NoneType"

\* the guard of add and check: item is None or item == ""
IsNoneOrEmpty(item) ==
    item.type = "NoneType" \/ (item.type = "str" /\ item.s = "")

\* SetBits leaving its loop after the first hash value
SetBitsFirstOnly(bits, hs, n) ==
    IF Len(hs) = 0 THEN bits ELSE [bits EXCEPT ![hs[1]] = 1]

\* SetBits flipping each position instead of setting it
RECURSIVE SetBitsToggle(_, _, _)
SetBitsToggle(bits, hs, n) ==
    IF n > Len(hs) THEN bits
    ELSE SetBitsToggle([bits EXCEPT ![hs[n]] = 1 - bits[hs[n]]], hs, n + 1)

\* SetBits starting from a fresh array: every other bit is cleared
SetBitsFresh(bits, hs, n) ==
    [i \in DOMAIN bits |-> IF \E j \in 1..Len(hs) : hs[j] = i THEN 1 ELSE 0]

\* add's loop: bit_array[hash_value] = 1 for every hash value
RECURSIVE SetBits(_, _, _)
SetBits(bits, hs, n) ==
    IF n > Len(hs) THEN bits
    ELSE SetBits([bits EXCEPT ![hs[n]] = 1], hs, n + 1)

\* CheckBits answering True at the first position that is set
RECURSIVE CheckBitsAny(_, _, _)
CheckBitsAny(bits, hs, n) ==
    IF n > Len(hs) THEN FALSE
    ELSE IF bits[hs[n]] = 1 THEN TRUE
    ELSE CheckBitsAny(bits, hs, n + 1)

\* check's loop: False at the first position that is 0, True after the last
RECURSIVE CheckBits(_, _, _)
CheckBits(bits, hs, n) ==
    IF n > Len(hs) THEN TRUE
    ELSE IF bits[hs[n]] = 0 THEN FALSE
    ELSE CheckBits(bits, hs, n + 1)

\* check(item) for an item that passes the guard
check(item) == CheckBits(bit_array, _hashes(item), 1)

\* a call has ended and the caller has its outcome
Idle(op, item, value) ==
    /\ pc' = "idle"
    /\ ret' = [op |-> op, item |-> item, value |-> value,
               again |-> item \in added]

\* no call of check_password_uniqueness is running: its locals are empty
NoBatch ==
    /\ passwords' = <<>>
    /\ idx' = 1
    /\ results' = <<>>
    /\ trace' = <<>>
    /\ bits0' = bit_array'

\* BloomFilter.add(item), called directly
Add(item) ==
    /\ pc = "idle"
    /\ IF IsNoneOrEmpty(item)
       THEN /\ Idle("add", item, "ValueError")
            /\ UNCHANGED <<bit_array, added>>
       ELSE /\ bit_array' = SetBits(bit_array, _hashes(item), 1)
            /\ added' = added \cup {item}
            /\ Idle("add", item, "None")
    /\ UNCHANGED <<size, num_hashes>>
    /\ NoBatch

\* BloomFilter.check(item), called directly
Check(item) ==
    /\ pc = "idle"
    /\ IF IsNoneOrEmpty(item)
       THEN Idle("check", item, "ValueError")
       ELSE Idle("check", item, IF check(item) THEN "True" ELSE "False")
    /\ UNCHANGED <<size, num_hashes, bit_array, added>>
    /\ NoBatch

\* ------------------------------------------------- check_password_uniqueness

\* the batches a caller may pass: every list of at most MaxBatch items
Batches == UNION {[1..n -> Items] : n \in 0..MaxBatch}

\* the test of line 42, negated: a non-empty string
IsValidPassword(p) == p.type = "str" /\ p.s # ""

\* a dict key must be hashable: results[[]] = ... raises TypeError
Hashable(p) == p.type # "list"

\* results[key] = status: a new key is appended, a key the dict already holds
\* keeps its place and has its value overwritten
DictSet(d, key, status) ==
    IF \E i \in 1..Len(d) : d[i][1] = key
    THEN [i \in 1..Len(d) |-> IF d[i][1] = key THEN <<key, status>> ELSE d[i]]
    ELSE Append(d, <<key, status>>)

\* IsUsed asking the filter as it was when the batch started
IsUsedSnapshot(p) == CheckBits(bits0, _hashes(p), 1)

\* bloom_filter.check(password) of line 45, on the filter as it is now
IsUsed(p) == check(p)

\* AddUnique with the add of line 49 left out
AddUniqueNothing(bits, p) == bits

\* bloom_filter.add(password) of line 49
AddUnique(bits, p) == SetBits(bits, _hashes(p), 1)

Assign(p, status) ==
    /\ results' = DictSet(results, p, status)
    /\ trace' = Append(trace, status)
    /\ idx' = idx + 1
    /\ UNCHANGED <<pc, ret, passwords, bits0, size, num_hashes>>

\* the call: results = {} and the loop is entered
CheckPasswordUniqueness(batch) ==
    /\ pc = "idle"
    /\ pc' = "loop"
    /\ passwords' = batch
    /\ idx' = 1
    /\ results' = <<>>
    /\ trace' = <<>>
    /\ bits0' = bit_array
    /\ ret' = [op |-> "check_password_uniqueness", item |-> PyNone,
               value |-> "running", again |-> FALSE]
    /\ UNCHANGED <<size, num_hashes, bit_array, added>>

\* an iteration on an item that is not a non-empty string (lines 42-44)
LoopInvalid ==
    /\ pc = "loop"
    /\ idx <= Len(passwords)
    /\ ~IsValidPassword(passwords[idx])
    /\ Hashable(passwords[idx])
    /\ Assign(passwords[idx], "invalid input")
    /\ UNCHANGED <<bit_array, added>>

\* the same iteration on an unhashable item: line 43 raises TypeError, which
\* leaves the function; the results dict is lost with the call's frame
LoopTypeError ==
    /\ pc = "loop"
    /\ idx <= Len(passwords)
    /\ ~IsValidPassword(passwords[idx])
    /\ ~Hashable(passwords[idx])
    /\ pc' = "idle"
    /\ ret' = [op |-> "check_password_uniqueness", item |-> PyNone,
               value |-> "TypeError", again |-> FALSE]
    /\ UNCHANGED <<size, num_hashes, bit_array, added>>
    /\ NoBatch

\* an iteration on a valid password the filter reports (lines 45-46)
LoopUsed ==
    /\ pc = "loop"
    /\ idx <= Len(passwords)
    /\ IsValidPassword(passwords[idx])
    /\ IsUsed(passwords[idx])
    /\ Assign(passwords[idx], "already used")
    /\ UNCHANGED <<bit_array, added>>

\* an iteration on a valid password the filter does not report (lines 47-49)
LoopUnique ==
    /\ pc = "loop"
    /\ idx <= Len(passwords)
    /\ IsValidPassword(passwords[idx])
    /\ ~IsUsed(passwords[idx])
    /\ Assign(passwords[idx], "unique")
    /\ bit_array' = AddUnique(bit_array, passwords[idx])
    /\ added' = added \cup {passwords[idx]}

\* the loop is exhausted: return results. The dict goes to the caller and the
\* call's frame (passwords, results) is gone; the state before this step,
\* pc = "loop" with idx past the end, holds the dict that is returned
Return ==
    /\ pc = "loop"
    /\ idx > Len(passwords)
    /\ pc' = "idle"
    /\ ret' = [op |-> "check_password_uniqueness", item |-> PyNone,
               value |-> "dict", again |-> FALSE]
    /\ UNCHANGED <<size, num_hashes, bit_array, added>>
    /\ NoBatch

Init ==
    /\ size \in 1..MaxSize
    /\ num_hashes \in 1..MaxHashes
    /\ bit_array = ZeroBits(size)
    /\ pc = "idle"
    /\ passwords = <<>>
    /\ idx = 1
    /\ results = <<>>
    /\ ret = [op |-> "__init__", item |-> PyNone, value |-> "None",
              again |-> FALSE]
    /\ added = {}
    /\ trace = <<>>
    /\ bits0 = bit_array

Next ==
    \/ \E item \in Items : Add(item)
    \/ \E item \in Items : Check(item)
    \/ \E batch \in Batches : CheckPasswordUniqueness(batch)
    \/ LoopInvalid
    \/ LoopTypeError
    \/ LoopUsed
    \/ LoopUnique
    \/ Return

Spec == Init /\ [][Next]_vars

\* ------------------------------------------------------------------ claims

\* the positions _hashes gives for item are all set in bits
AllSet(bits, item) ==
    \A i \in 1..num_hashes : bits[_hashes(item)[i]] = 1

\* a step that is a direct call of add or of check (the loop of
\* check_password_uniqueness leaves ret alone)
DirectCall(op) == ret'.op = op

\* the state from which check_password_uniqueness returns its dict
AtReturn == pc = "loop" /\ idx > Len(passwords)

\* position j holds the first occurrence of its value in the batch
FirstOccurrence(j) == \A e \in 1..(j - 1) : passwords[e] # passwords[j]

\* every position of passwords[j] was set by an earlier valid item of the batch
Covered(j) ==
    \A i \in 1..num_hashes :
        \E e \in 1..(j - 1) :
            /\ IsValidPassword(passwords[e])
            /\ \E k \in 1..num_hashes :
                _hashes(passwords[e])[k] = _hashes(passwords[j])[i]

\* C1. No false negatives: once add(x) has returned, the filter reports x in
\* every later state, whatever add, check and check_password_uniqueness calls
\* follow, and a check(x) call made then returns True.
C1_NoFalseNegatives ==
    /\ \A x \in added : check(x)
    /\ (ret.op = "check" /\ ret.item \in added) => ret.value = "True"

\* C1 witness: check returned True for an added item after other items were
\* added too.
C1_Witness ==
    /\ ret.op = "check"
    /\ ret.value = "True"
    /\ ret.item \in added
    /\ Cardinality(added) >= 2
    /\ num_hashes >= 2

\* C2 as stated: against an empty filter every first occurrence of a valid
\* value is classified unique and every later occurrence already used.
C2_Original ==
    (pc = "loop" /\ bits0 = ZeroBits(size)) =>
        \A j \in 1..Len(trace) :
            IsValidPassword(passwords[j]) =>
                trace[j] = IF FirstOccurrence(j) THEN "unique"
                           ELSE "already used"

\* C2 as amended: against an empty filter the first occurrence of a valid
\* value is classified unique unless every one of its positions was already
\* set by earlier valid items of the batch, and is then classified already
\* used; every later occurrence is classified already used.
C2_FirstUniqueUnlessCovered ==
    (pc = "loop" /\ bits0 = ZeroBits(size)) =>
        \A j \in 1..Len(trace) :
            IsValidPassword(passwords[j]) =>
                trace[j] = IF FirstOccurrence(j) /\ ~Covered(j) THEN "unique"
                           ELSE "already used"

\* C2 witness: an empty filter, a first occurrence classified unique, a later
\* occurrence of it classified already used, and the first occurrence of
\* another value in between classified unique too.
C2_Witness ==
    /\ AtReturn
    /\ bits0 = ZeroBits(size)
    /\ Len(passwords) = 3
    /\ passwords[1] = passwords[3]
    /\ passwords[1] # passwords[2]
    /\ trace = <<"unique", "unique", "already used">>

\* C3 as stated: the returned result holds one entry per supplied item, in
\* input order, each with the classification the item was given.
C3_OneEntryPerItem ==
    AtReturn =>
        /\ Len(results) = Len(passwords)
        /\ \A j \in 1..Len(passwords) :
            results[j] = <<passwords[j], trace[j]>>

\* C4 as stated: an iteration on an item that is not a non-empty string
\* classifies it invalid, leaves the bit array alone and goes on to the next
\* item of the batch.
C4_InvalidIsolated ==
    [][(pc = "loop" /\ idx <= Len(passwords)
            /\ ~IsValidPassword(passwords[idx])) =>
        /\ pc' = "loop"
        /\ idx' = idx + 1
        /\ trace' = Append(trace, "invalid input")
        /\ bit_array' = bit_array]_vars

C6_IdempotentAdd ==
    [][(DirectCall("add") /\ ret'.value = "None" /\ ret'.again) =>
        bit_array' = bit_array]_vars

\* C6 witness: add has returned again for an item added before, with other
\* items added as well.
C6_Witness ==
    /\ ret.op = "add"
    /\ ret.value = "None"
    /\ ret.again
    /\ Cardinality(added) >= 2
    /\ \E i \in DOMAIN bit_array : bit_array[i] = 0

\* C7. check returns True exactly when every position _hashes gives for the
\* item is set, False exactly when one is 0, and never changes the bit array.
C7_CheckIffAllSet ==
    [][(DirectCall("check") /\ ret'.value # "ValueError") =>
        /\ bit_array' = bit_array
        /\ (ret'.value = "True") <=> AllSet(bit_array, ret'.item)
        /\ (ret'.value = "False") <=>
            \E i \in 1..num_hashes : bit_array[_hashes(ret'.item)[i]] = 0]_vars

\* C7 witness: check returned False for an item of which one position is set
\* and another is not.
C7_Witness ==
    /\ ret.op = "check"
    /\ ret.value = "False"
    /\ \E i \in 1..num_hashes : bit_array[_hashes(ret.item)[i]] = 1

\* C8. Append-only filter: no step clears a set bit, and the array's length,
\* size and num_hashes never change.
C8_AppendOnly ==
    [][/\ \A i \in DOMAIN bit_array : bit_array[i] = 1 => bit_array'[i] = 1
       /\ DOMAIN bit_array' = 0..(size - 1)
       /\ size' = size
       /\ num_hashes' = num_hashes]_vars

\* C8 witness: a batch is running on a filter that already held items and has
\* added another one.
C8_Witness ==
    /\ pc = "loop"
    /\ \E i \in DOMAIN bits0 : bits0[i] = 1
    /\ bits0 # bit_array
    /\ Cardinality(added) >= 2

\* C10. check_password_uniqueness never classifies unique an item for which
\* add has returned on this filter (directly, earlier in the batch or in an
\* earlier batch); an item is classified unique only when check is False for
\* it, and it is added in that same iteration.
C10_NeverUniqueOnceAdded ==
    [][(pc = "loop" /\ Len(trace') = Len(trace) + 1) =>
        /\ passwords[idx] \in added => trace'[Len(trace')] # "unique"
        /\ trace'[Len(trace')] = "unique" =>
            /\ ~check(passwords[idx])
            /\ passwords[idx] \in added'
            /\ AllSet(bit_array', passwords[idx])]_vars

\* C10 witness: in one batch an item added before the batch and an item
\* classified unique earlier in the batch were both classified already used.
C10_Witness ==
    /\ pc = "loop"
    /\ Len(trace) = 3
    /\ \E i \in DOMAIN bits0 : bits0[i] = 1
    /\ \E i \in DOMAIN bits0 : bits0[i] = 0
    /\ trace = <<"already used", "unique", "already used">>
    /\ passwords[2] = passwords[3]
    /\ passwords[1] # passwords[2]
====
